---------------------------- MODULE Spec2Model ----------------------------
(***************************************************************************)
(* Verification model of the outline editor (CardList.tsx over the         *)
(* useCreativeAIStore store, driven by CreativeAI.tsx) and of the          *)
(* presentation Editor's debounced auto-save (Editor.tsx).                 *)
(*                                                                         *)
(* Array indices are kept 0-based as in the TypeScript source; TLA+        *)
(* sequences are 1-based, so element i of a JS array a is a[i + 1].        *)
(***************************************************************************)
EXTENDS Integers, Sequences, FiniteSets, TLC

(* ------------------------------ bounds -------------------------------- *)

\* Longest outline list the model builds.
MaxCards == 3

\* Card ids are 1..MaxIds; each generated id is used once.
MaxIds == MaxCards

\* The Editor's clock runs from 0 (mount) to MaxTime, in milliseconds.
MaxTime == 4200

\* Most changes of the slide store the model makes.
MaxChanges == 3

(* ------------------------------ state --------------------------------- *)

VARIABLES
    outlines,         \* store: OutlineCard[]            (part_000:22)
    currentAiPrompt,  \* store: string                   (part_000:18)
    editText,         \* CreativeAI useState('')         (CreativeAI.tsx:31)
    draggedItem,      \* CardList useState<OutlineCard|null>  (CardList.tsx:25),
                      \* kept as the card's id: nothing else of it is read
    dragOverIndex,    \* CardList useState<number|null>       (CardList.tsx:24)
    dragStartTimer,   \* the setTimeout(...,0) pending from onDragStart
    nextId,           \* next identifier the id generator hands out
    last,             \* history: the handler that ran last and its arguments
    \* ---- the presentation Editor (Editor.tsx) ----
    phase,            \* "init" (not rendered yet), "mounted", "unmounted"
    now,              \* milliseconds since the Editor mounted
    isEditable,       \* prop                            (Editor.tsx:162)
    project,          \* slide store: project | null     (Editor.tsx:167)
    slides,           \* slide store: the slides value, by version number
    timers,           \* the runtime's pending setTimeout callbacks
    autoSaveTimeoutRef, \* useRef<Timeout | null>        (Editor.tsx:176)
    inFlight,         \* updateSlides requests issued and not yet completed
    burst,            \* history: the last change of slides, and the calls since
    lastCall,         \* history: the last updateSlides call
    nCalls,           \* history: number of updateSlides calls so far
    storeCall,        \* history: what the step just taken called on the
                      \* slide store ("none" when it was not a handler)
    \* ---- the outline page (CreativeAI.tsx) ----
    editingCard,      \* useState<string | null>(null)   (CreativeAI.tsx:29)
    isGenerating,     \* useState(false)                 (CreativeAI.tsx:30)
    selectedCard,     \* useState<string | null>(null)   (CreativeAI.tsx:32)
    noOfCards,        \* useState(0)                     (CreativeAI.tsx:34)
    prompts,          \* prompt store: the stored prompt records
    pending           \* the server action awaited, with the values of its
                      \* render that the awaiting handler reads afterwards

cardVars == <<outlines, currentAiPrompt, editText, draggedItem, dragOverIndex,
              dragStartTimer, nextId, last>>

editorVars == <<phase, now, isEditable, project, slides, timers,
                autoSaveTimeoutRef, inFlight, burst, lastCall, nCalls,
                storeCall>>

selVars == <<editingCard, selectedCard>>

genVars == <<isGenerating, prompts, pending>>

pageVars == <<selVars, noOfCards, genVars>>

vars == <<cardVars, editorVars, pageVars>>

\* null of `number | null` (dragOverIndex) and "no timer pending".
\* It differs from -1, which findIndex returns for "not found".
NullIndex == -2

\* null of `OutlineCard | null` (draggedItem): no card has id 0.
NoCard == 0

\* Texts the user can type into a card's edit box and into the prompt box.
EditTexts == {"", "T"}
Prompts   == {"", "P"}

(* --------------------------- pure helpers ----------------------------- *)

Min(a, b) == IF a < b THEN a ELSE b

\* cards.findIndex(c => c.id === id): first 0-based index, -1 when absent.
FindIndex(cards, id) ==
    IF \E i \in 1..Len(cards) : cards[i].id = id
    THEN (CHOOSE i \in 1..Len(cards) :
             /\ cards[i].id = id
             /\ \A j \in 1..(i - 1) : cards[j].id # id) - 1
    ELSE -1

\* cards.filter(pred) for pred = (card.id !== id)
RECURSIVE FilterOutId(_, _)
FilterOutId(cards, id) ==
    IF cards = <<>> THEN <<>>
    ELSE IF Head(cards).id # id
         THEN <<Head(cards)>> \o FilterOutId(Tail(cards), id)
         ELSE FilterOutId(Tail(cards), id)

\* cards.map((card, index) => ({...card, order: index + 1}))
RenumberKeep(cards) == cards
Renumber(cards) ==
    [i \in 1..Len(cards) |-> [cards[i] EXCEPT !.order = i]]

\* cards.map(card => ({...card, order: card.order + 1}))
ShiftOrder(cards) ==
    [i \in 1..Len(cards) |-> [cards[i] EXCEPT !.order = cards[i].order + 1]]

\* cards.slice(from) and cards.slice(0, to), 0-based, end exclusive
SliceFrom(cards, from) == SubSeq(cards, Min(from, Len(cards)) + 1, Len(cards))
SliceTo(cards, to)     == SubSeq(cards, 1, Min(to, Len(cards)))

\* cards.splice(start, 1): the array without element `start`
SpliceRemove(cards, start) ==
    SubSeq(cards, 1, start) \o SubSeq(cards, start + 2, Len(cards))

\* cards.splice(start, 0, item): a start beyond the end is clamped to it
SpliceReplace(cards, start, item) ==
    LET k == Min(start, Len(cards))
    IN  SubSeq(cards, 1, k) \o <<item>> \o SubSeq(cards, k + 2, Len(cards))
SpliceInsert(cards, start, item) ==
    LET k == Min(start, Len(cards))
    IN  SubSeq(cards, 1, k) \o <<item>> \o SubSeq(cards, k + 1, Len(cards))

\* dragOverIndex > draggedIndex ? dragOverIndex - 1 : dragOverIndex
TargetIndexRaw(draggedIndex, overIndex) == overIndex
TargetIndex(draggedIndex, overIndex) ==
    IF overIndex > draggedIndex THEN overIndex - 1 ELSE overIndex

\* lines 50-54 of onDrop: take the card out, put it back at the target,
\* renumber
MoveCard(cards, draggedIndex, overIndex) ==
    LET removeCard == cards[draggedIndex + 1]
        without    == SpliceRemove(cards, draggedIndex)
    IN  Renumber(SpliceInsert(without, TargetIndex(draggedIndex, overIndex),
                              removeCard))

(* ------------------------------- store -------------------------------- *)

\* addMultipleOutlines: set(() => ({outlines: [...outlines]}))
addMultipleOutlines(cards) == cards

(* ------------------------------ history ------------------------------- *)

\* op: handler name; a, b: its integer arguments (NullIndex when it has
\* none); done: it ran to its last statement (no early return).
Did(op, a, b, done) == [op |-> op, a |-> a, b |-> b, done |-> done]

\* what a handler that the properties below do not follow leaves in `last`
Other == Did("other", NullIndex, NullIndex, TRUE)

(* ------------------------------ initial ------------------------------- *)

InitCards ==
    /\ outlines = <<>>
    /\ currentAiPrompt = ""
    /\ editText = ""
    /\ draggedItem = NoCard
    /\ dragOverIndex = NullIndex
    /\ dragStartTimer = NullIndex
    /\ nextId = 1
    /\ last = Did("init", NullIndex, NullIndex, FALSE)

(* ------------------------- CreativeAI handlers ------------------------ *)

\* onEditChange={setEditText}
OnEditChange ==
    \E v \in EditTexts :
        /\ editText' = v
        /\ last' = Other
        /\ UNCHANGED <<outlines, currentAiPrompt, draggedItem, dragOverIndex,
                       dragStartTimer, nextId>>

\* resetOutlines: set({outlines: []})
resetOutlinesAndPrompt(store) == [outlines |-> <<>>, currentAiPrompt |-> ""]
resetOutlines(store) == [store EXCEPT !.outlines = <<>>]

\* setCurrentAiPrompt: set({currentAiPrompt: prompt})
setCurrentAiPrompt(store, prompt) == [store EXCEPT !.currentAiPrompt = prompt]

\* resetCards: the reset button of the page
ResetCards ==
    LET store == [outlines |-> outlines, currentAiPrompt |-> currentAiPrompt]
        after == resetOutlines(setCurrentAiPrompt(store, ""))
    IN  /\ editingCard' = NoCard
        /\ selectedCard' = NoCard
        /\ editText' = ""
        /\ currentAiPrompt' = after.currentAiPrompt
        /\ outlines' = after.outlines
        /\ last' = Did("resetCards", Len(outlines), NullIndex, TRUE)
        /\ UNCHANGED <<draggedItem, dragOverIndex, dragStartTimer, nextId>>

(* -------------------------- CardList handlers ------------------------- *)

\* Math.random().toString(36).substr(2, 9): an identifier not handed out
\* before
NewId == nextId

\* title: editText || 'New Section'
NewTitle == IF editText # "" THEN editText ELSE "New Section"

\* const updatedCards = index !== undefined ? [...] : [...outlines, newCard]
AddCardAtSameOrder(cards, index, newCard) ==
    SliceTo(cards, index + 1) \o <<newCard>> \o SliceFrom(cards, index + 1)
AddCardBefore(cards, index, newCard) ==
    SliceTo(cards, index) \o <<[newCard EXCEPT !.order = index + 1]>>
        \o ShiftOrder(SliceFrom(cards, index))
AddCardAt(cards, index, newCard) ==
    SliceTo(cards, index + 1) \o <<newCard>>
        \o ShiftOrder(SliceFrom(cards, index + 1))

AddCardAtEnd(cards, newCard) == cards \o <<newCard>>

\* onAddCard(index), the button under the card at `index`
OnAddCard ==
    \E index \in 0..(Len(outlines) - 1) :
        /\ nextId <= MaxIds
        /\ Len(outlines) < MaxCards
        /\ LET newCard == [id |-> NewId, title |-> NewTitle,
                           order |-> (index + 1) + 1]
           IN  outlines' = addMultipleOutlines(AddCardAt(outlines, index, newCard))
        /\ nextId' = nextId + 1
        /\ editText' = ""
        /\ last' = Did("onAddCard", index, NullIndex, TRUE)
        /\ UNCHANGED <<currentAiPrompt, draggedItem, dragOverIndex,
                       dragStartTimer>>

\* onAddCard(), index === undefined
OnAddCardNoAnchor ==
    /\ nextId <= MaxIds
    /\ Len(outlines) < MaxCards
    /\ LET newCard == [id |-> NewId, title |-> NewTitle,
                       order |-> Len(outlines) + 1]
       IN  outlines' = addMultipleOutlines(AddCardAtEnd(outlines, newCard))
    /\ nextId' = nextId + 1
    /\ editText' = ""
    /\ last' = Did("onAddCard", NullIndex, NullIndex, TRUE)
    /\ UNCHANGED <<currentAiPrompt, draggedItem, dragOverIndex, dragStartTimer>>

\* outlines.filter(card => card.id !== id).map((card, index) => ...)
DeleteCardKeepOrder(cards, id) == FilterOutId(cards, id)
DeleteCardBySplice(cards, id) ==
    LET k == FindIndex(cards, id)
    IN  Renumber(SpliceRemove(cards, IF k = -1 THEN Len(cards) - 1 ELSE k))
DeleteCard(cards, id) == Renumber(FilterOutId(cards, id))

\* onCardDelete(id); id is any identifier handed out so far
OnCardDelete ==
    \E id \in 1..(nextId - 1) :
        /\ outlines' = addMultipleOutlines(DeleteCard(outlines, id))
        /\ last' = Did("onCardDelete", id, FindIndex(outlines, id), TRUE)
        /\ UNCHANGED <<currentAiPrompt, editText, draggedItem, dragOverIndex,
                       dragStartTimer, nextId>>

\* outlines.map(card => card.id === id ? {...card, title: newTitle} : card)
UpdateTitle(cards, id, newTitle) ==
    [i \in 1..Len(cards) |->
        IF cards[i].id = id THEN [cards[i] EXCEPT !.title = newTitle]
        ELSE cards[i]]

\* onCardUpdate(card.id, editText), on blur or Enter.  setEditingCard(null)
\* and setSelectedCard(null) write state that no handler of the list reads.
OnCardUpdate ==
    \E id \in 1..(nextId - 1) :
        /\ outlines' = addMultipleOutlines(UpdateTitle(outlines, id, editText))
        /\ editingCard' = NoCard
        /\ selectedCard' = NoCard
        /\ editText' = ""
        /\ last' = Did("onCardUpdate", id, FindIndex(outlines, id), TRUE)
        /\ UNCHANGED <<currentAiPrompt, draggedItem, dragOverIndex,
                       dragStartTimer, nextId>>

\* onDragStart(e, card) for the card rendered at `index`; the timeout
\* callback closes over this render's outlines and the card
OnDragStart ==
    \E index \in 0..(Len(outlines) - 1) :
        /\ dragStartTimer = NullIndex
        /\ draggedItem' = outlines[index + 1].id
        /\ dragStartTimer' = FindIndex(outlines, outlines[index + 1].id)
        /\ last' = Other
        /\ UNCHANGED <<outlines, currentAiPrompt, editText, dragOverIndex,
                       nextId>>

\* the setTimeout(() => setDragOverIndex(...), 0) callback of onDragStart
DragStartTimeout ==
    /\ dragStartTimer # NullIndex
    /\ dragOverIndex' = dragStartTimer
    /\ dragStartTimer' = NullIndex
    /\ last' = Other
    /\ UNCHANGED <<outlines, currentAiPrompt, editText, draggedItem, nextId>>

\* y < threshhold ? index : index + 1
HoverIndex(index, upperHalf) == IF upperHalf THEN index ELSE index + 1

\* onDragOver(e, index): index is a card's index, or outlines.length when
\* the event comes from the list container
OnDragOver ==
    \E index \in 0..Len(outlines), upperHalf \in BOOLEAN :
        /\ IF draggedItem = NoCard
           THEN UNCHANGED dragOverIndex
           ELSE dragOverIndex' = HoverIndex(index, upperHalf)
        /\ last' = Other
        /\ UNCHANGED <<outlines, currentAiPrompt, editText, draggedItem,
                       dragStartTimer, nextId>>

\* onDrop(e)
OnDrop ==
    LET draggedIndex == FindIndex(outlines, draggedItem)
    IN  IF draggedItem = NoCard \/ dragOverIndex = NullIndex
        THEN /\ last' = Did("onDrop", NullIndex, dragOverIndex, FALSE)
             /\ UNCHANGED <<outlines, currentAiPrompt, editText, draggedItem,
                            dragOverIndex, dragStartTimer, nextId>>
        ELSE IF draggedIndex = -1 \/ draggedIndex = dragOverIndex
        THEN /\ last' = Did("onDrop", draggedIndex, dragOverIndex, FALSE)
             /\ UNCHANGED <<outlines, currentAiPrompt, editText, draggedItem,
                            dragOverIndex, dragStartTimer, nextId>>
        ELSE /\ outlines' = addMultipleOutlines(
                                MoveCard(outlines, draggedIndex, dragOverIndex))
             /\ draggedItem' = NoCard
             /\ dragOverIndex' = NullIndex
             /\ last' = Did("onDrop", draggedIndex, dragOverIndex, TRUE)
             /\ UNCHANGED <<currentAiPrompt, editText, dragStartTimer, nextId>>

\* onDragEnd()
OnDragEnd ==
    /\ draggedItem' = NoCard
    /\ dragOverIndex' = NullIndex
    /\ last' = Did("onDragEnd", NullIndex, NullIndex, TRUE)
    /\ UNCHANGED <<outlines, currentAiPrompt, editText, dragStartTimer, nextId>>

\* useEffect(() => { setNoOfCards(outlines.length) }, [outlines.length]):
\* the page renders again after every change of the store, and the effect
\* runs when the length of the list differs from the render before
NoOfCardsEffect ==
    noOfCards' = IF Len(outlines') # Len(outlines) THEN Len(outlines')
                 ELSE noOfCards

\* the rest of a step of a CardList handler: the page's effect, and nothing
\* else of the page or of the Editor
CardListStep == NoOfCardsEffect /\ UNCHANGED <<selVars, genVars, editorVars>>

\* the same for a handler that itself clears editingCard and selectedCard
DeselectStep == NoOfCardsEffect /\ UNCHANGED <<genVars, editorVars>>

\* Scheduling: the zero-delay timeout of onDragStart is the next task the
\* event loop runs, so no other handler is dispatched while it is pending.
Next ==
    \/ dragStartTimer = NullIndex /\ OnEditChange /\ CardListStep
    \/ dragStartTimer = NullIndex /\ ResetCards /\ DeselectStep
    \/ dragStartTimer = NullIndex /\ OnAddCard /\ CardListStep
    \/ dragStartTimer = NullIndex /\ OnAddCardNoAnchor /\ CardListStep
    \/ dragStartTimer = NullIndex /\ OnCardDelete /\ CardListStep
    \/ dragStartTimer = NullIndex /\ OnCardUpdate /\ DeselectStep
    \/ OnDragStart /\ CardListStep
    \/ DragStartTimeout /\ CardListStep
    \/ dragStartTimer = NullIndex /\ OnDragOver /\ CardListStep
    \/ dragStartTimer = NullIndex /\ OnDrop /\ CardListStep
    \/ dragStartTimer = NullIndex /\ OnDragEnd /\ CardListStep

(* ============================== Editor ================================ *)

\* setTimeout(() => saveSlides(), 2000)
DebounceMs == 2000

\* null of `project` and of autoSaveTimeoutRef.current
NoProject == 0
NoTimer == [due |-> -1, isEditable |-> FALSE, project |-> NoProject,
            slides |-> -1]
NoCall == [at |-> -1, slides |-> -1, current |-> -1, changedAt |-> -1,
           withProject |-> FALSE]

InitEditor ==
    /\ phase = "init"
    /\ now = 0
    /\ isEditable = FALSE
    /\ project = NoProject
    /\ slides = 0
    /\ timers = {}
    /\ autoSaveTimeoutRef = NoTimer
    /\ inFlight = <<>>
    /\ burst = [changedAt |-> 0, withProject |-> FALSE, calls |-> 0]
    /\ lastCall = NoCall
    /\ nCalls = 0
    /\ storeCall = "none"

\* no server action awaited
NoPending == [kind |-> "none", prompt |-> "", outlines |-> <<>>]

InitPage ==
    /\ editingCard = NoCard
    /\ isGenerating = FALSE
    /\ selectedCard = NoCard
    /\ noOfCards = 0
    /\ prompts = {}
    /\ pending = NoPending

Init == InitCards /\ InitEditor /\ InitPage

\* the outline page: CardList inside CreativeAI
Spec == Init /\ [][Next]_vars

\* clearTimeout(handle): a handle that already ran, or null, clears nothing
ClearTimeoutNone(table, handle) == table
ClearTimeout(table, handle) == table \ {handle}

\* if (autoSaveTimeoutRef.current) clearTimeout(autoSaveTimeoutRef.current)
EffectCleanup(table, ref) ==
    IF ref # NoTimer THEN ClearTimeout(table, ref) ELSE table

\* The auto-save effect run at time t in a render with props and store
\* values ed, proj, sl: React first runs the previous run's cleanup, then
\* the body.  The callback () => saveSlides() closes over that render's
\* saveSlides, hence over ed, proj and sl.  Gives <<timers, ref>>.
AutoSaveEffect(table, ref, ed, proj, sl, t) ==
    LET cleaned == EffectCleanup(EffectCleanup(table, ref), ref)
        timer   == [due |-> t + DebounceMs, isEditable |-> ed,
                    project |-> proj, slides |-> sl]
    IN  IF ed THEN <<cleaned \cup {timer}, timer>> ELSE <<cleaned, ref>>

\* first render of <Editor isEditable=...> and its effects
Mount ==
    \E ed \in BOOLEAN, proj \in {NoProject, 1} :
        /\ phase = "init"
        /\ phase' = "mounted"
        /\ isEditable' = ed
        /\ project' = proj
        /\ LET e == AutoSaveEffect(timers, autoSaveTimeoutRef, ed, proj,
                                   slides, now)
           IN  timers' = e[1] /\ autoSaveTimeoutRef' = e[2]
        /\ burst' = [changedAt |-> now, withProject |-> proj # NoProject,
                     calls |-> 0]
        /\ UNCHANGED <<now, slides, inFlight, lastCall, nCalls>>

\* the store's slides value changes (an edit, a reorder, a removal, a
\* load); the Editor re-renders and the effect runs again
SlidesChange ==
    /\ phase = "mounted"
    /\ slides < MaxChanges
    /\ slides' = slides + 1
    /\ LET e == AutoSaveEffect(timers, autoSaveTimeoutRef, isEditable, project,
                               slides + 1, now)
       IN  timers' = e[1] /\ autoSaveTimeoutRef' = e[2]
    /\ burst' = [changedAt |-> now, withProject |-> project # NoProject,
                 calls |-> 0]
    /\ UNCHANGED <<phase, now, isEditable, project, inFlight, lastCall, nCalls>>

\* the store's project is set once the presentation has been loaded
ProjectLoaded ==
    /\ phase = "mounted"
    /\ project = NoProject
    /\ project' = 1
    /\ LET e == AutoSaveEffect(timers, autoSaveTimeoutRef, isEditable, 1,
                               slides, now)
       IN  timers' = e[1] /\ autoSaveTimeoutRef' = e[2]
    /\ UNCHANGED <<phase, now, isEditable, slides, inFlight, burst, lastCall,
                   nCalls>>

\* saveSlides of the render the timer was set in:
\* if (isEditable && project) updateSlides(project.id, copy of slides)
SaveSlidesIssues(timer) == timer.isEditable /\ timer.project # NoProject

\* a timeout set by the effect comes due
AutoSaveTimeout ==
    \E timer \in timers :
        /\ timer.due <= now
        /\ timers' = timers \ {timer}
        /\ IF SaveSlidesIssues(timer)
           THEN /\ inFlight' = Append(inFlight, [project |-> timer.project,
                                                 slides |-> timer.slides])
                /\ burst' = [burst EXCEPT !.calls = @ + 1]
                /\ lastCall' = [at |-> now, slides |-> timer.slides,
                                current |-> slides,
                                changedAt |-> burst.changedAt,
                                withProject |-> burst.withProject]
                /\ nCalls' = nCalls + 1
           ELSE UNCHANGED <<inFlight, burst, lastCall, nCalls>>
        /\ UNCHANGED <<phase, now, isEditable, project, slides,
                       autoSaveTimeoutRef>>

\* the server action updateSlides answers; its result is not read
UpdateSlidesDone ==
    \E k \in 1..Len(inFlight) :
        /\ inFlight' = SubSeq(inFlight, 1, k - 1)
                           \o SubSeq(inFlight, k + 1, Len(inFlight))
        /\ UNCHANGED <<phase, now, isEditable, project, slides, timers,
                       autoSaveTimeoutRef, burst, lastCall, nCalls>>

\* the Editor is removed from the page: the effect's cleanup runs
UnmountNoCleanup ==
    /\ phase = "mounted"
    /\ phase' = "unmounted"
    /\ UNCHANGED <<now, isEditable, project, slides, timers,
                   autoSaveTimeoutRef, inFlight, burst, lastCall, nCalls>>
Unmount ==
    /\ phase = "mounted"
    /\ phase' = "unmounted"
    /\ timers' = EffectCleanup(timers, autoSaveTimeoutRef)
    /\ UNCHANGED <<now, isEditable, project, slides, autoSaveTimeoutRef,
                   inFlight, burst, lastCall, nCalls>>

\* 100 ms pass; a timeout that is due runs before the clock moves on
Tick ==
    /\ phase # "init"
    /\ now + 100 <= MaxTime
    /\ \A timer \in timers : timer.due > now
    /\ now' = now + 100
    /\ UNCHANGED <<phase, isEditable, project, slides, timers,
                   autoSaveTimeoutRef, inFlight, burst, lastCall, nCalls>>

(* ---- the Editor's handlers, by the slide-store function they call ---- *)

\* indexes a slide or a drop zone can have
SlideIndexes == 0..1

\* a handler that returns without calling the store
Skipped == "skipped"

\* const moveSlide = (dragIndex, hoverIndex) =>
\*     { if (isEditable) reorderSlides(dragIndex, hoverIndex) }
moveSlide(ed) == IF ed THEN "reorderSlides" ELSE Skipped

\* DraggableSlide's hover(item), with ref.current set:
\*     if (!ref.current || !isEditable) return
\*     if (item.type === 'SLIDE' && dragIndex !== hoverIndex) moveSlide(...)
hover(ed, type, dragIndex, hoverIndex) ==
    IF ~ed THEN Skipped
    ELSE IF type = "SLIDE" /\ dragIndex # hoverIndex THEN moveSlide(ed)
    ELSE Skipped

\* handleDrop(item, dropIndex); hasIndex is item.index !== undefined
handleDrop(ed, type, hasIndex) ==
    IF ~ed THEN Skipped
    ELSE IF type = "layout" THEN "addSlideAtIndex"
    ELSE IF type = "SLIDE" /\ hasIndex THEN moveSlide(ed)
    ELSE Skipped

\* const handleDelete = (id) => { if (isEditable) removeSlide(id) }
handleDeleteUnguarded(ed) == "removeSlide"
handleDelete(ed) == IF ed THEN "removeSlide" ELSE Skipped

\* A store function commits a new slides value (the slide store itself is
\* outside this repository's sources).
SlideStoreCommit ==
    /\ slides < MaxChanges
    /\ slides' = slides + 1

\* A handler of the mounted Editor runs and calls fn on the slide store, or
\* nothing.  On a new slides value the Editor renders again and the
\* auto-save effect runs.
EditorHandler(fn) ==
    /\ phase = "mounted"
    /\ storeCall' = fn
    /\ IF fn = Skipped
       THEN UNCHANGED <<slides, timers, autoSaveTimeoutRef, burst>>
       ELSE /\ SlideStoreCommit
            /\ LET e == AutoSaveEffect(timers, autoSaveTimeoutRef, isEditable,
                                       project, slides + 1, now)
               IN  timers' = e[1] /\ autoSaveTimeoutRef' = e[2]
            /\ burst' = [changedAt |-> now,
                         withProject |-> project # NoProject, calls |-> 0]
    /\ UNCHANGED <<phase, now, isEditable, project, inFlight, lastCall, nCalls>>

\* The handlers are taken as callable in either mode: that read-only mode
\* renders neither the drop zones nor the delete button is a second
\* barrier, which the handlers do not rely on.

\* a dragged item hovers over a slide
Hover ==
    \E type \in {"SLIDE", "LAYOUT"}, dragIndex, hoverIndex \in SlideIndexes :
        EditorHandler(hover(isEditable, type, dragIndex, hoverIndex))

\* an item is dropped on a drop zone
HandleDrop ==
    \E type \in {"layout", "SLIDE"}, hasIndex \in BOOLEAN :
        EditorHandler(handleDrop(isEditable, type, hasIndex))

\* the delete button of a slide is pressed
HandleDelete == EditorHandler(handleDelete(isEditable))

NextEditor ==
    \/ Mount /\ storeCall' = "none" /\ UNCHANGED <<cardVars, pageVars>>
    \/ SlidesChange /\ storeCall' = "none" /\ UNCHANGED <<cardVars, pageVars>>
    \/ ProjectLoaded /\ storeCall' = "none" /\ UNCHANGED <<cardVars, pageVars>>
    \/ AutoSaveTimeout /\ storeCall' = "none" /\ UNCHANGED <<cardVars, pageVars>>
    \/ UpdateSlidesDone /\ storeCall' = "none" /\ UNCHANGED <<cardVars, pageVars>>
    \/ Unmount /\ storeCall' = "none" /\ UNCHANGED <<cardVars, pageVars>>
    \/ Tick /\ storeCall' = "none" /\ UNCHANGED <<cardVars, pageVars>>
    \/ Hover /\ UNCHANGED <<cardVars, pageVars>>
    \/ HandleDrop /\ UNCHANGED <<cardVars, pageVars>>
    \/ HandleDelete /\ UNCHANGED <<cardVars, pageVars>>

SpecEditor == Init /\ [][NextEditor]_vars

(* =============================== store ================================ *)

\* The store as its clients can drive it: one action per operation of
\* useCreativeAIStore, with ResetCards, the page's own reset.

\* addOutline: set(state => ({outlines: [outline, ...state.outlines]}))
addOutline(store, outline) ==
    [store EXCEPT !.outlines = <<outline>> \o store.outlines]

\* the store's two fields
Store == [outlines |-> outlines, currentAiPrompt |-> currentAiPrompt]

\* cards a client may hand to the store
StoreCards == {[id |-> i, title |-> "T", order |-> i] : i \in 1..MaxIds}

StoreSetCurrentAiPrompt ==
    \E p \in Prompts :
        /\ currentAiPrompt' = setCurrentAiPrompt(Store, p).currentAiPrompt
        /\ outlines' = setCurrentAiPrompt(Store, p).outlines
        /\ last' = Did("setCurrentAiPrompt", NullIndex, NullIndex, TRUE)

StoreAddOutline ==
    \E card \in StoreCards :
        /\ Len(outlines) < MaxCards
        /\ outlines' = addOutline(Store, card).outlines
        /\ currentAiPrompt' = addOutline(Store, card).currentAiPrompt
        /\ last' = Did("addOutline", card.id, NullIndex, TRUE)

StoreAddMultipleOutlines ==
    \E n \in 0..2 : \E cards \in [1..n -> StoreCards] :
        /\ outlines' = addMultipleOutlines(cards)
        /\ UNCHANGED currentAiPrompt
        /\ last' = Did("addMultipleOutlines", n, NullIndex, TRUE)

\* last.a: how many cards the store held when resetOutlines was called
StoreResetOutlines ==
    /\ outlines' = resetOutlines(Store).outlines
    /\ currentAiPrompt' = resetOutlines(Store).currentAiPrompt
    /\ last' = Did("resetOutlines", Len(outlines), NullIndex, TRUE)

NextStore ==
    \/ /\ StoreSetCurrentAiPrompt
       /\ UNCHANGED <<editText, draggedItem, dragOverIndex, dragStartTimer,
                      nextId>>
       /\ CardListStep
    \/ /\ StoreAddOutline
       /\ UNCHANGED <<editText, draggedItem, dragOverIndex, dragStartTimer,
                      nextId>>
       /\ CardListStep
    \/ /\ StoreAddMultipleOutlines
       /\ UNCHANGED <<editText, draggedItem, dragOverIndex, dragStartTimer,
                      nextId>>
       /\ CardListStep
    \/ /\ StoreResetOutlines
       /\ UNCHANGED <<editText, draggedItem, dragOverIndex, dragStartTimer,
                      nextId>>
       /\ CardListStep
    \/ ResetCards /\ DeselectStep

SpecStore == Init /\ [][NextStore]_vars

(* ============================ outline page ============================ *)

\* Most prompt records the prompt store comes to hold.
MaxPrompts == 1

\* what the page leaves alone: the drag state of the list, and the Editor
\* but for the slide store's project
dragVars == <<draggedItem, dragOverIndex, dragStartTimer>>
editorRest == <<phase, now, isEditable, slides, timers, autoSaveTimeoutRef,
                inFlight, burst, lastCall, nCalls, storeCall>>

\* the Select's items, Array.from({ length: 6 }, (_, idx) => idx + 1): the
\* first and the last of them
SelectItems == {1, 6}

\* status of a server action's answer
Statuses == {200, 500}

\* <Input ... onChange={(e) => setCurrentAiPrompt(e.target.value)} />
OnPromptChange ==
    \E p \in Prompts :
        /\ currentAiPrompt' = setCurrentAiPrompt(Store, p).currentAiPrompt
        /\ outlines' = setCurrentAiPrompt(Store, p).outlines
        /\ last' = Other
        /\ UNCHANGED <<editText, dragVars, nextId, pageVars, editorVars>>

\* onValueChange={(value) => setNoOfCards(parseInt(value))}
OnCountChange ==
    \E n \in SelectItems :
        /\ noOfCards' = n
        /\ last' = Other
        /\ UNCHANGED <<outlines, currentAiPrompt, editText, dragVars, nextId,
                       selVars, genVars, editorVars>>

\* positions of the cards that are clicked: the head of the list
Clicked == 1..Min(1, Len(outlines))

\* onCardSelect={setSelectedCard}, from the card at position k
OnCardSelect ==
    \E k \in Clicked :
        /\ selectedCard' = outlines[k].id
        /\ last' = Other
        /\ UNCHANGED <<outlines, currentAiPrompt, editText, dragVars, nextId,
                       editingCard, noOfCards, genVars, editorVars>>

\* onCardDoubleClick={(id, title) => { setEditingCard(id), setEditText(title) }}
OnCardDoubleClick ==
    \E k \in Clicked :
        /\ editingCard' = outlines[k].id
        /\ editText' = outlines[k].title
        /\ last' = Other
        /\ UNCHANGED <<outlines, currentAiPrompt, dragVars, nextId,
                       selectedCard, noOfCards, genVars, editorVars>>

\* generateOutline up to its await.  The button is disabled while
\* isGenerating.  last.done: the prompt passed the check.
GenerateOutline ==
    /\ ~isGenerating
    /\ IF currentAiPrompt = ""
       THEN /\ last' = Did("generateOutline", NullIndex, NullIndex, FALSE)
            /\ UNCHANGED <<isGenerating, pending>>
       ELSE /\ isGenerating' = TRUE
            /\ pending' = [NoPending EXCEPT !.kind = "generateCreativePrompt"]
            /\ last' = Did("generateOutline", NullIndex, NullIndex, TRUE)
    /\ UNCHANGED <<outlines, currentAiPrompt, editText, dragVars, nextId,
                   selVars, noOfCards, prompts, editorVars>>

\* if (res.status === 200 && res?.data?.outlines)
generateSucceeded(status, hasOutlines) == status = 200 /\ hasOutlines

\* cardsData: a card per returned title, id: v4(), order: idx + 1
CardsData(n) ==
    [idx \in 1..n |-> [id |-> nextId + idx - 1, title |-> "Outline",
                       order |-> idx]]

\* generateCreativePrompt answers with n titles, or with none; the rest of
\* generateOutline runs.  last.a: the status
GenerateOutlineDone ==
    \E status \in Statuses, hasOutlines \in BOOLEAN, n \in 0..MaxCards :
        /\ pending.kind = "generateCreativePrompt"
        /\ IF generateSucceeded(status, hasOutlines)
           THEN /\ nextId + n - 1 <= MaxIds
                /\ outlines' = addMultipleOutlines(CardsData(n))
                /\ nextId' = nextId + n
                /\ noOfCards' = n
           ELSE /\ n = 0
                /\ UNCHANGED <<outlines, nextId, noOfCards>>
        /\ isGenerating' = FALSE
        /\ pending' = NoPending
        /\ last' = Did("generateOutlineDone", status, NullIndex,
                       generateSucceeded(status, hasOutlines))
        /\ UNCHANGED <<currentAiPrompt, editText, dragVars, selVars, prompts,
                       editorVars>>

\* handleGenerate up to its await.  The button is disabled while
\* isGenerating, and is rendered only under a list that has cards; the
\* handler makes its own check of the list, and is taken as callable with
\* an empty one.  last.done: the list passed the check.
HandleGenerate ==
    /\ ~isGenerating
    /\ isGenerating' = TRUE
    /\ IF Len(outlines) = 0
       THEN /\ UNCHANGED pending
            /\ last' = Did("handleGenerate", NullIndex, NullIndex, FALSE)
       ELSE /\ pending' = [kind |-> "createProject",
                           prompt |-> currentAiPrompt, outlines |-> outlines]
            /\ last' = Did("handleGenerate", NullIndex, NullIndex, TRUE)
    /\ UNCHANGED <<outlines, currentAiPrompt, editText, dragVars, nextId,
                   selVars, noOfCards, prompts, editorVars>>

\* if (res.status !== 200 || !res.data) throw new Error(...)
createProjectFailedNoData(status, hasData) == ~hasData
createProjectFailed(status, hasData) == status # 200 \/ ~hasData

\* addPrompt of the prompt store: the store comes to hold the record
addPrompt(records, record) == records \cup {record}

\* the record handleGenerate hands to addPrompt, from the values it closed
\* over: title: currentAiPrompt || outlines?.[0]?.title, outlines: outlines
PromptRecord(call) ==
    [title |-> IF call.prompt # "" THEN call.prompt
               ELSE call.outlines[1].title,
     outlines |-> call.outlines]

\* createProject answers; the rest of handleGenerate runs: the try block,
\* or catch, and finally.  last.a: the status
CreateProjectDone ==
    \E status \in Statuses, hasData \in BOOLEAN :
        /\ pending.kind = "createProject"
        /\ IF createProjectFailed(status, hasData)
           THEN UNCHANGED <<outlines, currentAiPrompt, prompts, project>>
           ELSE /\ Cardinality(prompts) < MaxPrompts
                /\ project' = 1
                /\ prompts' = addPrompt(prompts, PromptRecord(pending))
                /\ LET after == resetOutlines(setCurrentAiPrompt(Store, ""))
                   IN  /\ currentAiPrompt' = after.currentAiPrompt
                       /\ outlines' = after.outlines
        /\ NoOfCardsEffect
        /\ isGenerating' = FALSE
        /\ pending' = NoPending
        /\ last' = Did("createProjectDone", status, NullIndex,
                       ~createProjectFailed(status, hasData))
        /\ UNCHANGED <<editText, dragVars, nextId, selVars, editorRest>>

\* The page: its own handlers, and the list's removal of a card.
NextPage ==
    \/ OnPromptChange
    \/ OnCountChange
    \/ OnCardSelect
    \/ OnCardDoubleClick
    \/ GenerateOutline
    \/ GenerateOutlineDone
    \/ HandleGenerate
    \/ CreateProjectDone
    \/ ResetCards /\ DeselectStep
    \/ OnCardDelete /\ CardListStep

SpecPage == Init /\ [][NextPage]_vars

(* ===================== properties of the card list ==================== *)

\* what identifies a card apart from its position
Ident(card) == <<card.id, card.title>>

Ids(cards)    == [i \in 1..Len(cards) |-> cards[i].id]
Orders(cards) == [i \in 1..Len(cards) |-> cards[i].order]

\* the step just taken was handler `op`
Ran(op) == last'.op = op

\* C1 (order contiguity): in every reachable state the committed list of
\* N cards carries the order values 1..N, the card at 0-based array
\* position i carrying i + 1.
C1_OrderContiguity ==
    \A i \in 0..(Len(outlines) - 1) : outlines[i + 1].order = i + 1

\* a committed move has just renumbered a full list
C1_Witness ==
    /\ last.op = "onDrop" /\ last.done
    /\ Len(outlines) = MaxCards
    /\ last.b # last.a + 1

\* Where the card of 0-based position j of the list after a move from s with
\* hover index t stood before the move.
MoveSource(j, s, t) ==
    IF t > s
    THEN IF j < s THEN j
         ELSE IF j < t - 1 THEN j + 1
         ELSE IF j = t - 1 THEN s
         ELSE j
    ELSE IF j < t THEN j
         ELSE IF j = t THEN s
         ELSE IF j <= s THEN j - 1
         ELSE j

\* C2 (move result): a drop that finds the dragged card at s with hover
\* index t in 0..N, t # s, commits the list with the dragged card at t - 1
\* (t > s) or t (t < s), every other card in its previous relative order,
\* orders 1..N; dragging a of [a, b, c] onto b's lower half (s = 0, t = 2)
\* gives [b, a, c].
C2_MoveResult ==
    [][ (Ran("onDrop") /\ last'.done /\ last'.b <= Len(outlines)) =>
          LET s == last'.a
              t == last'.b
              N == Len(outlines)
          IN  /\ Len(outlines') = N
              /\ Ident(outlines'[(IF t > s THEN t - 1 ELSE t) + 1])
                    = Ident(outlines[s + 1])
              /\ \A j \in 0..(N - 1) :
                    /\ Ident(outlines'[j + 1])
                          = Ident(outlines[MoveSource(j, s, t) + 1])
                    /\ outlines'[j + 1].order = j + 1
              /\ (N = 3 /\ s = 0 /\ t = 2) =>
                    Ids(outlines') = <<outlines[2].id, outlines[1].id,
                                       outlines[3].id>>
      ]_vars

\* a (id 1) of [a, b, c] has been dropped on b's lower half
C2_Witness ==
    /\ last = Did("onDrop", 0, 2, TRUE)
    /\ Ids(outlines) = <<2, 1, 3>>
    /\ Orders(outlines) = <<1, 2, 3>>

\* C3 (identity preservation): a committed move keeps the length of the
\* list and its (id, title) pairs; only positions and order values change.
C3_IdentityPreserved ==
    [][ (Ran("onDrop") /\ last'.done) =>
          /\ Len(outlines') = Len(outlines)
          /\ \A c \in {Ident(outlines[i]) : i \in 1..Len(outlines)} :
                Cardinality({i \in 1..Len(outlines') :
                                Ident(outlines'[i]) = c})
                  = Cardinality({i \in 1..Len(outlines) :
                                    Ident(outlines[i]) = c})
      ]_vars

\* a committed move of a card to another place, in a list whose cards
\* carry different titles
C3_Witness ==
    /\ last.op = "onDrop" /\ last.done
    /\ last.b # last.a + 1
    /\ \E i, j \in 1..Len(outlines) : outlines[i].title # outlines[j].title

\* C4 (no-op drag): a drop of the card found at s with hover index s (own
\* upper half, or the index set at drag start) or s + 1 (own lower half)
\* leaves the outline list as it was.
C4_NoOpDrag ==
    [][ (Ran("onDrop") /\ last'.a >= 0
            /\ (last'.b = last'.a \/ last'.b = last'.a + 1)) =>
          outlines' = outlines
      ]_vars

\* a card of a list of three has been dropped on its own lower half, and
\* the handler went through its splice and commit
C4_Witness ==
    /\ last.op = "onDrop" /\ last.done
    /\ last.b = last.a + 1
    /\ Len(outlines) = 3

\* C5 (delete): onCardDelete(id) for an id in the list (ids are pairwise
\* distinct) gives a list one shorter without id, the other cards in their
\* previous relative order with their ids and titles, renumbered 1..N-1.
C5_Delete ==
    [][ (Ran("onCardDelete") /\ last'.b >= 0) =>
          LET k == last'.b
              N == Len(outlines)
          IN  /\ Len(outlines') = N - 1
              /\ \A j \in 1..(N - 1) : outlines'[j].id # last'.a
              /\ \A j \in 0..(N - 2) :
                    /\ Ident(outlines'[j + 1])
                          = Ident(outlines[(IF j < k THEN j ELSE j + 1) + 1])
                    /\ outlines'[j + 1].order = j + 1
      ]_vars

\* y (id 2) has been deleted from [x(1), y(2), z(3)], leaving [x(1), z(2)]
C5_Witness ==
    /\ last = Did("onCardDelete", 2, 1, TRUE)
    /\ Ids(outlines) = <<1, 3>>
    /\ Orders(outlines) = <<1, 2>>

\* C6 as first stated: onAddCard with anchor index 1 on [x(1), y(2)]
\* commits [x(1), new(2), y(3)].
C6_InsertBetweenAtAnchorOne ==
    [][ (Ran("onAddCard") /\ last'.a = 1 /\ Len(outlines) = 2) =>
          /\ Ids(outlines') = <<outlines[1].id, NewId, outlines[2].id>>
          /\ Orders(outlines') = <<1, 2, 3>>
      ]_vars

\* C6 (insert scenario), amended: onAddCard with anchor index 1 on
\* [x(1), y(2)] commits [x(1), y(2), new(3)], the new card after y; it is
\* anchor index 0 that commits [x(1), new(2), y(3)].
C6_InsertScenario ==
    [][ (Ran("onAddCard") /\ Len(outlines) = 2) =>
          /\ last'.a = 1 =>
                /\ Ids(outlines') = <<outlines[1].id, outlines[2].id, NewId>>
                /\ Orders(outlines') = <<1, 2, 3>>
          /\ last'.a = 0 =>
                /\ Ids(outlines') = <<outlines[1].id, NewId, outlines[2].id>>
                /\ Orders(outlines') = <<1, 2, 3>>
      ]_vars

\* onAddCard(1) has run on a list of two cards
C6_Witness ==
    /\ last = Did("onAddCard", 1, NullIndex, TRUE)
    /\ Len(outlines) = 3
    /\ outlines[3].id = nextId - 1

\* C7 (insert at index): onAddCard(i), 0 <= i < N, commits N + 1 cards:
\* positions 0..i unchanged, the new card at i + 1, the cards after i in
\* their previous order with order + 1; onAddCard() appends the new card
\* with order N + 1 and changes no other card.
C7_InsertAtIndex ==
    [][ Ran("onAddCard") =>
          LET i == last'.a
              N == Len(outlines)
          IN  /\ Len(outlines') = N + 1
              /\ i # NullIndex =>
                    /\ \A j \in 0..i : outlines'[j + 1] = outlines[j + 1]
                    /\ outlines'[i + 2].id = NewId
                    /\ \A j \in (i + 1)..(N - 1) :
                          outlines'[j + 2] =
                              [outlines[j + 1] EXCEPT
                                  !.order = outlines[j + 1].order + 1]
              /\ i = NullIndex =>
                    /\ \A j \in 0..(N - 1) : outlines'[j + 1] = outlines[j + 1]
                    /\ outlines'[N + 1].id = NewId
                    /\ outlines'[N + 1].order = N + 1
      ]_vars

\* a card has been added under the first of two cards, shifting the second
C7_Witness ==
    /\ last = Did("onAddCard", 0, NullIndex, TRUE)
    /\ Len(outlines) = 3
    /\ outlines[2].id = nextId - 1

(* ===================== properties of the auto-save ==================== *)

\* C8 (debounce collapsing): in an editable Editor with a project, every
\* updateSlides call is made DebounceMs after the last change of slides
\* and carries the slides of that change; no change gets two calls, and
\* once DebounceMs have passed since the last change of a mounted Editor
\* that change has got its call.  (Changes at 0, 500 and 700 ms: one call,
\* at 2700 ms, with the slides of 700 ms.)
C8_DebounceCollapsing ==
    /\ (lastCall # NoCall /\ lastCall.withProject) =>
          /\ lastCall.at = lastCall.changedAt + DebounceMs
          /\ lastCall.slides = lastCall.current
    /\ burst.withProject => burst.calls <= 1
    /\ (/\ phase = "mounted" /\ isEditable /\ burst.withProject
        /\ now > burst.changedAt + DebounceMs) => burst.calls = 1

\* three changes, the last at 700 ms, have got one call in all, at 2700 ms,
\* carrying the third state
C8_Witness ==
    /\ slides = 3
    /\ burst = [changedAt |-> 700, withProject |-> TRUE, calls |-> 1]
    /\ nCalls = 1
    /\ lastCall.at = 2700 /\ lastCall.slides = 3

\* C9 (single in-flight save): at most one updateSlides request is in
\* flight in every reachable state.
C9_SingleInFlight == Len(inFlight) <= 1

(* ======================= properties of the store ====================== *)

\* C10 as first stated: resetOutlines leaves the store with an empty
\* outline list and an empty current prompt, whatever it held before.
C10_ResetClearsPromptToo ==
    last.op = "resetOutlines" => (outlines = <<>> /\ currentAiPrompt = "")

\* C10 (store reset), amended: resetOutlines leaves the store with an empty
\* outline list, whatever it held before, and the current prompt as it
\* was; resetCards, which calls setCurrentAiPrompt('') before
\* resetOutlines, leaves both empty.
C10_StoreReset ==
    [][ /\ Ran("resetOutlines") =>
              (outlines' = <<>> /\ currentAiPrompt' = currentAiPrompt)
        /\ Ran("resetCards") =>
              (outlines' = <<>> /\ currentAiPrompt' = "")
      ]_vars

\* resetOutlines has run on a store holding cards and a prompt
C10_Witness ==
    /\ last.op = "resetOutlines" /\ last.a > 0
    /\ outlines = <<>>
    /\ currentAiPrompt = "P"

(* ================= properties of the drag gesture ===================== *)

\* C13 (drag state release): after onDrop has returned, whether it
\* committed or aborted (dragged id not in the list, or target index equal
\* to the source index), and after onDragEnd, draggedItem and dragOverIndex
\* are both null.
C13_DragStateReleased ==
    (\/ last.op = "onDragEnd"
     \/ (last.op = "onDrop" /\ last.a # NullIndex)) =>
        (draggedItem = NoCard /\ dragOverIndex = NullIndex)

\* C14 (missing identity): onDrop for a dragged card whose id is no longer
\* in the list, onCardDelete(id) and onCardUpdate(id, title) for an id that
\* is not in the list, each leave the outline list as it was.
C14_MissingIdentityNoOp ==
    [][ /\ (Ran("onDrop") /\ last'.a = -1) => outlines' = outlines
        /\ (Ran("onCardDelete") /\ last'.b = -1) => outlines' = outlines
        /\ (Ran("onCardUpdate") /\ last'.b = -1) => outlines' = outlines
      ]_vars

\* a card was dragged, deleted from a list that keeps other cards, and
\* dropped
C14_Witness ==
    /\ last.op = "onDrop" /\ last.a = -1
    /\ draggedItem # NoCard
    /\ Len(outlines) >= 2

(* =================== properties of the Editor ========================= *)

\* C15 (teardown): once the Editor is unmounted no timeout is pending and
\* no updateSlides call is issued any more.
C15_TeardownCancels ==
    [][ phase = "unmounted" => (timers = {} /\ nCalls' = nCalls) ]_vars

\* the Editor was unmounted with a save pending, the time the save was due
\* has come, and no call has been made
C15_Witness ==
    /\ phase = "unmounted"
    /\ SaveSlidesIssues(autoSaveTimeoutRef)
    /\ autoSaveTimeoutRef.due <= now
    /\ nCalls = 0

\* C16 (read-only mode): while isEditable is false, no drag-hover, drop,
\* delete or timer event calls reorderSlides, addSlideAtIndex, removeSlide
\* or updateSlides.
C16_ReadOnlyNoStoreCall ==
    (phase # "init" /\ ~isEditable) =>
        /\ storeCall \in {"none", Skipped}
        /\ nCalls = 0
        /\ inFlight = <<>>
        /\ timers = {}

\* a read-only Editor with a project loaded, whose slides have changed, has
\* run a handler, and the debounce time has gone by
C16_Witness ==
    /\ phase = "mounted"
    /\ ~isEditable
    /\ project # NoProject
    /\ slides > 0
    /\ storeCall = Skipped
    /\ now >= DebounceMs

(* ================= properties of the outline page ===================== *)

\* state of the page and of the stores a validation error is to leave alone
PageState ==
    <<outlines, currentAiPrompt, prompts, isGenerating, noOfCards,
      editingCard, selectedCard, editText, pending, project>>

\* C11 (validation errors): generateOutline with an empty prompt, and
\* handleGenerate with an empty outline list, make no external call and
\* leave outlines, currentAiPrompt, the stored prompts, isGenerating,
\* noOfCards and the edit and selection state as they were.
C11_ValidationLeavesState ==
    [][ ((Ran("generateOutline") \/ Ran("handleGenerate")) /\ ~last'.done)
            => UNCHANGED PageState ]_vars

\* C12 (external failure): when generateCreativePrompt or createProject
\* answers with a status other than success, the handler (its part before
\* the await and its part after) leaves the outline list, the current
\* prompt and the stored prompt records as they were and sets no project,
\* and isGenerating is false again when it has finished.
C12_FailureLeavesState ==
    [][ /\ ((Ran("generateOutline") \/ Ran("handleGenerate")) /\ last'.done)
            => UNCHANGED <<outlines, currentAiPrompt, prompts, project>>
        /\ ((Ran("generateOutlineDone") \/ Ran("createProjectDone"))
                /\ last'.a # 200)
            => /\ UNCHANGED <<outlines, currentAiPrompt, prompts, project>>
               /\ ~isGenerating'
               /\ pending' = NoPending
      ]_vars

\* createProject has failed for a list with cards and a prompt
C12_Witness ==
    /\ last.op = "createProjectDone" /\ last.a # 200
    /\ Len(outlines) > 0
    /\ currentAiPrompt # ""
    /\ ~isGenerating

====
